---- MODULE Spec2Model ----
(***************************************************************************)
(* Storage and lifecycle layer of the sensor monitoring API: the schema    *)
(* migrator, the connection pool, the sensor / reading / session stores,    *)
(* the maintenance and health service, and the route handlers that call    *)
(* them and map their errors.  A store call runs to its end in one action, *)
(* or statement by statement where calls on two connections interleave.    *)
(*                                                                         *)
(* An Option<T> of the source is a sequence: <<>> is None, <<v>> is        *)
(* Some(v).  A table is the set of its rows.                               *)
(***************************************************************************)
EXTENDS Integers, Sequences, FiniteSets, TLC

\* ------------------------------------------------------------------ bounds
MaxSensorId == 2     \* sensor ids the store hands out
MaxReadingId == 3    \* reading ids the store hands out
MaxSessionId == 3    \* session ids the store hands out
MaxTime == 1         \* the wall clock runs 0..MaxTime
MaxBatch == 2        \* rows in one bulk insert
MaxBoots == 1        \* process restarts on the same store
MaxHealthSeed == 3   \* readings of the store a health report starts from
PoolSize == 2        \* connections of the pool

\* -------------------------------------------------------- program constants
CURRENT_VERSION == 1
DefaultLimit == 1000
SECONDS_PER_HOUR == 3600

None == <<>>
Some(v) == <<v>>
IsSome(o) == o # <<>>
Unwrap(o) == o[1]
unwrap_or(o, d) == IF o = <<>> THEN d ELSE o[1]

\* the greatest element of a set of integers (its successor is then no element)
SetMax(S) == CHOOSE m \in S : (m + 1) \notin S /\ \A x \in S : x <= m

VARIABLES
    phase,             \* main: "boot", "serving" or "exited"
    boots,             \* restarts of the process so far
    DB_POOL,           \* OnceCell<DbPool>: None, or Some(connection |-> its pragmas)
    tables,            \* the tables that exist in the store
    schema_version,    \* rows of schema_version
    scripts_applied,   \* how many times a migration script has been committed
    sensors,           \* rows of sensors
    readings,          \* rows of readings
    idx_readings_timestamp, \* the readings in (timestamp, reading_id) order
    seeded,            \* readings the store held when the model's run began
    logging_sessions,  \* rows of logging_sessions
    now,               \* SystemTime::now() in seconds since the epoch
    inflight,          \* per pooled connection, the store call in progress on it
    executed,          \* the statements the last maintenance request ran, in order
    pre,               \* the store, pool and clock as the last request found them
    last               \* the last request or step and the response the caller saw

vars == <<phase, boots, DB_POOL, tables, schema_version, scripts_applied,
          sensors, readings, idx_readings_timestamp, seeded, logging_sessions, now,
          inflight, executed, pre, last>>

Conns == 1..PoolSize

\* a connection resting in the pool
Idle == [pc |-> "idle"]

\* ------------------------------------------------------------------ errors
\* rusqlite::Error, by the text its Display gives
rusqlite_error(msg) == [type |-> "rusqlite", msg |-> msg]
\* anyhow::anyhow!(msg)
anyhow_msg(msg) == [type |-> "anyhow", msg |-> msg]
\* `?` inside a function returning anyhow::Result: From<E> for anyhow::Error
into_anyhow(e) == [type |-> "anyhow", msg |-> e.msg]

FK_FAILED == "FOREIGN KEY constraint failed"
UNIQUE_FAILED == "UNIQUE constraint failed"
NO_ROWS == "Query returned no rows"

\* `?` inside a handler returning Result<_, AppError>: the #[from] conversions
AppError_from(e) ==
    IF e.type = "rusqlite"
    THEN [variant |-> "Database", msg |-> e.msg]
    ELSE [variant |-> "Internal", msg |-> e.msg]
AppError_BadRequest(msg) == [variant |-> "BadRequest", msg |-> msg]

\* axum::http::StatusCode, by name
CONFLICT == "CONFLICT"
BAD_REQUEST == "BAD_REQUEST"
NOT_FOUND == "NOT_FOUND"
INTERNAL_SERVER_ERROR == "INTERNAL_SERVER_ERROR"
OK == "OK"
CREATED == "CREATED"
\* no status yet: the call has taken a step and is still running
PENDING == "PENDING"

\* impl IntoResponse for AppError: the status the caller sees
into_response(e) ==
    CASE e.variant = "Database" ->
            IF e.msg = UNIQUE_FAILED THEN CONFLICT
            ELSE IF e.msg = FK_FAILED THEN BAD_REQUEST
            ELSE IF e.msg = NO_ROWS THEN NOT_FOUND
            ELSE INTERNAL_SERVER_ERROR
      [] e.variant = "Internal" -> INTERNAL_SERVER_ERROR
      [] e.variant = "NotFound" -> NOT_FOUND
      [] e.variant = "BadRequest" -> BAD_REQUEST
      [] e.variant = "Conflict" -> CONFLICT

\* a store method's Result<T>: Ok(ret) or Err(e)
Ok(ret) == [err |-> None, ret |-> ret]
Err(e) == [err |-> Some(e), ret |-> -1]

\* ------------------------------------------------------- requests, responses
NoArgs ==
    [id |-> None, sensor |-> None, readings |-> <<>>, session |-> None,
     query |-> None, fault |-> "none", db_path |-> None, payload |-> None]

\* what the caller of a handler saw: the status, the error text behind it (None on
\* success), the id or count in the body (-1 when there is none) and the rows returned
Response(op, args, status, err, ret, rows) ==
    [op |-> op, args |-> args, status |-> status, err |-> err, ret |-> ret,
     rows |-> rows]

\* a step of a call that has not replied yet
Step(op, args) == Response(op, args, PENDING, None, -1, <<>>)

\* a handler's `?` on a store method's error: AppError_from, then into_response
Failure(op, args, e) ==
    Response(op, args, into_response(AppError_from(e)), Some(e.msg), -1, <<>>)

\* the store, the pool cell and the clock as a request finds them
Snapshot ==
    [sensors |-> sensors, readings |-> readings, logging_sessions |-> logging_sessions,
     tables |-> tables, schema_version |-> schema_version,
     scripts_applied |-> scripts_applied, DB_POOL |-> DB_POOL, now |-> now,
     inflight |-> inflight]

\* ---------------------------------------------------------- schema migrator
MigrationFaults == {"none", "pool", "create_table", "begin", "script", "insert", "commit"}

\* migrations/001_initial_schema.sql: the tables the initial script creates
InitialSchemaTables == {"sensors", "readings", "logging_sessions"}

\* SELECT version FROM schema_version ORDER BY version DESC LIMIT 1, .unwrap_or(0)
current_version(sv) == IF sv = {} THEN 0 ELSE SetMax(sv)

Migrated(tabs, sv, applied) == [tables |-> tabs, schema_version |-> sv, scripts_applied |-> applied]

\* the statements of run_migrations in autocommit mode: what ran before the failing
\* step stays
migration_tx_Autocommit(tabs, sv, applied, version, fault) ==
    LET tabs2 == IF version = 0 THEN tabs \cup InitialSchemaTables ELSE tabs
        applied2 == IF version = 0 THEN applied + 1 ELSE applied
    IN  IF fault \in {"begin", "script"}
        THEN [err |-> Some(anyhow_msg(fault)), db |-> Migrated(tabs, sv, applied)]
        ELSE IF fault = "insert"
        THEN [err |-> Some(anyhow_msg(fault)), db |-> Migrated(tabs2, sv, applied2)]
        ELSE IF fault = "commit"
        THEN [err |-> Some(anyhow_msg(fault)),
              db |-> Migrated(tabs2, sv \cup {CURRENT_VERSION}, applied2)]
        ELSE IF CURRENT_VERSION \in sv
        THEN [err |-> Some(into_anyhow(rusqlite_error(UNIQUE_FAILED))),
              db |-> Migrated(tabs, sv, applied)]
        ELSE [err |-> None, db |-> Migrated(tabs2, sv \cup {CURRENT_VERSION}, applied2)]

\* the transaction of run_migrations: the script when version = 0, the version row
\* (version is the table's primary key), the commit; a failing step drops the
\* transaction, which rolls it back
migration_tx(tabs, sv, applied, version, fault) ==
    IF fault \in {"begin", "script", "insert", "commit"}
    THEN [err |-> Some(anyhow_msg(fault)), db |-> Migrated(tabs, sv, applied)]
    ELSE IF CURRENT_VERSION \in sv
    THEN [err |-> Some(into_anyhow(rusqlite_error(UNIQUE_FAILED))),
          db |-> Migrated(tabs, sv, applied)]
    ELSE [err |-> None,
          db |-> Migrated(IF version = 0 THEN tabs \cup InitialSchemaTables ELSE tabs,
                          sv \cup {CURRENT_VERSION},
                          IF version = 0 THEN applied + 1 ELSE applied)]

\* run_migrations with `version <= CURRENT_VERSION`: a migrated store is migrated again
run_migrations_AtTargetToo(tabs, sv, applied, fault) ==
    IF fault = "create_table"
    THEN [err |-> Some(anyhow_msg(fault)), db |-> Migrated(tabs, sv, applied)]
    ELSE LET tabs1 == tabs \cup {"schema_version"}
             version == current_version(sv)
         IN  IF version <= CURRENT_VERSION
             THEN migration_tx(tabs1, sv, applied, version, fault)
             ELSE [err |-> None, db |-> Migrated(tabs1, sv, applied)]

run_migrations(tabs, sv, applied, fault) ==
    IF fault = "create_table"
    THEN [err |-> Some(anyhow_msg(fault)), db |-> Migrated(tabs, sv, applied)]
    ELSE LET tabs1 == tabs \cup {"schema_version"}
             version == current_version(sv)
         IN  IF version < CURRENT_VERSION
             THEN migration_tx(tabs1, sv, applied, version, fault)
             ELSE [err |-> None, db |-> Migrated(tabs1, sv, applied)]

\* ---------------------------------------------------------- connection pool
\* with_init without `PRAGMA foreign_keys = ON`: SQLite's default, enforcement off
with_init_NoForeignKeys(c) ==
    [journal_mode |-> "WAL", synchronous |-> "NORMAL", foreign_keys |-> FALSE,
     cache_size |-> 10000]

\* SqliteConnectionManager::with_init: the pragmas every new connection is given
with_init(c) ==
    [journal_mode |-> "WAL", synchronous |-> "NORMAL", foreign_keys |-> TRUE,
     cache_size |-> 10000]

\* the store files a pool can be opened on: the default path of main and another
DEFAULT_DATABASE_PATH == "sensor_data.db"
DbPaths == {DEFAULT_DATABASE_PATH, "other.db"}

\* Pool::new(SqliteConnectionManager::file(db_path).with_init(..)): the connections
\* of a pool, each opened on db_path and given the pragmas
Pool_new(db_path) == [c \in Conns |-> with_init(c) @@ [db_path |-> db_path]]

\* a cell that takes every pool it is given
get_or_init_Replace(cell, pool) == Some(pool)

\* DB_POOL.get_or_init(|| pool): the cell keeps the pool it already holds
get_or_init(cell, pool) == IF cell = None THEN Some(pool) ELSE cell

\* init_pool with the migrator's result dropped instead of returned by `?`
init_pool_MigrationErrorIgnored(db_path, cell, tabs, sv, applied, fault) ==
    IF fault = "pool"
    THEN [err |-> Some(anyhow_msg(fault)), cell |-> cell, db |-> Migrated(tabs, sv, applied)]
    ELSE LET m == run_migrations(tabs, sv, applied, fault)
         IN  [err |-> None, cell |-> get_or_init(cell, Pool_new(db_path)), db |-> m.db]

\* init_pool: build the pool, install it, run the migrations on a connection of the
\* installed pool
init_pool(db_path, cell, tabs, sv, applied, fault) ==
    IF fault = "pool"
    THEN [err |-> Some(anyhow_msg(fault)), cell |-> cell, db |-> Migrated(tabs, sv, applied)]
    ELSE LET m == run_migrations(tabs, sv, applied, fault)
         IN  [err |-> m.err, cell |-> get_or_init(cell, Pool_new(db_path)), db |-> m.db]

\* get_connection(): the pool's connections, or the error of an empty cell
get_connection(cell) ==
    IF cell = None THEN Err(anyhow_msg("Database pool not initialized"))
    ELSE Ok(0)

\* get_pool(): the installed pool, or the error of an empty cell
get_pool(cell) ==
    IF cell = None
    THEN [err |-> Some(anyhow_msg("Database pool not initialized")), pool |-> None]
    ELSE [err |-> None, pool |-> cell]

foreign_keys(c) == Unwrap(DB_POOL)[c].foreign_keys

\* main: init_pool(path)?, then bind and serve
main ==
    /\ phase = "boot"
    /\ \E fault \in MigrationFaults :
         LET r == init_pool(DEFAULT_DATABASE_PATH, DB_POOL, tables, schema_version,
                            scripts_applied, fault)
         IN  /\ DB_POOL' = r.cell
             /\ tables' = r.db.tables
             /\ schema_version' = r.db.schema_version
             /\ scripts_applied' = r.db.scripts_applied
             /\ phase' = IF r.err = None THEN "serving" ELSE "exited"
             /\ last' = Response("init_pool",
                                  [NoArgs EXCEPT !.fault = fault,
                                                 !.db_path = Some(DEFAULT_DATABASE_PATH)],
                                  IF r.err = None THEN OK ELSE INTERNAL_SERVER_ERROR,
                                  IF r.err = None THEN None ELSE Some(Unwrap(r.err).msg),
                                  -1, <<>>)
    /\ pre' = Snapshot
    /\ UNCHANGED <<boots, sensors, readings, idx_readings_timestamp, seeded,
                   logging_sessions, now, inflight, executed>>

\* a further call of init_pool in the running process: the error goes to the caller
init_pool_again ==
    /\ phase = "serving"
    /\ \E db_path \in DbPaths, fault \in MigrationFaults :
         LET r == init_pool(db_path, DB_POOL, tables, schema_version, scripts_applied,
                            fault)
         IN  /\ DB_POOL' = r.cell
             /\ tables' = r.db.tables
             /\ schema_version' = r.db.schema_version
             /\ scripts_applied' = r.db.scripts_applied
             /\ last' = Response("init_pool",
                                  [NoArgs EXCEPT !.fault = fault, !.db_path = Some(db_path)],
                                  IF r.err = None THEN OK ELSE INTERNAL_SERVER_ERROR,
                                  IF r.err = None THEN None ELSE Some(Unwrap(r.err).msg),
                                  -1, <<>>)
    /\ pre' = Snapshot
    /\ UNCHANGED <<phase, boots, sensors, readings, idx_readings_timestamp, seeded,
                   logging_sessions, now, inflight, executed>>

\* --------------------------------------------------------------- the schema
\* INTEGER PRIMARY KEY: the id SQLite gives the next row, read by last_insert_rowid()
last_insert_rowid(ids) == IF ids = {} THEN 1 ELSE SetMax(ids) + 1

\* sensor_id REFERENCES sensors: with foreign_keys on, a child row needs its parent
fk_check(fk, sensorsTbl, sensor_id) ==
    fk => \E s \in sensorsTbl : s.sensor_id = sensor_id

\* ON DELETE CASCADE: with foreign_keys on, the child rows of a deleted sensor go too
on_delete_cascade(fk, rows, id) ==
    IF fk THEN {r \in rows : r.sensor_id # id} ELSE rows

\* -------------------------------------------------------------- sensor store
\* Sensor::create with threshold_max and threshold_min bound in each other's place
Sensor_create_ThresholdsSwapped(tbl, s, t) ==
    LET id == last_insert_rowid({x.sensor_id : x \in tbl})
        row == [sensor_id |-> id, sensor_name |-> s.sensor_name,
                sensor_type |-> s.sensor_type, location |-> s.location,
                unit |-> s.unit, threshold_min |-> s.threshold_max,
                threshold_max |-> s.threshold_min,
                calibration_date |-> s.calibration_date, notes |-> s.notes,
                created_at |-> t, updated_at |-> t]
    IN  [res |-> Ok(id), sensors |-> tbl \cup {row}]

\* Sensor::create
Sensor_create(tbl, s, t) ==
    LET id == last_insert_rowid({x.sensor_id : x \in tbl})
        row == [sensor_id |-> id, sensor_name |-> s.sensor_name,
                sensor_type |-> s.sensor_type, location |-> s.location,
                unit |-> s.unit, threshold_min |-> s.threshold_min,
                threshold_max |-> s.threshold_max,
                calibration_date |-> s.calibration_date, notes |-> s.notes,
                created_at |-> t, updated_at |-> t]
    IN  [res |-> Ok(id), sensors |-> tbl \cup {row}]

\* DateTime::from_timestamp(secs, 0): the instant, by its epoch seconds and nanoseconds
from_timestamp(secs, nsecs) == Some([secs |-> secs, nsecs |-> nsecs])

\* Sensor::from_row: a row as a SensorResponse
Sensor_from_row(x) ==
    [sensor_id |-> x.sensor_id, sensor_name |-> x.sensor_name,
     sensor_type |-> x.sensor_type, location |-> x.location, unit |-> x.unit,
     threshold_min |-> x.threshold_min, threshold_max |-> x.threshold_max,
     calibration_date |-> IF x.calibration_date = None THEN None
                          ELSE Some(Unwrap(from_timestamp(Unwrap(x.calibration_date), 0))),
     notes |-> x.notes,
     created_at |-> Unwrap(from_timestamp(x.created_at, 0)),
     updated_at |-> Unwrap(from_timestamp(x.updated_at, 0))]

\* Sensor::get_by_id: query_row; no row is rusqlite's QueryReturnedNoRows, which `?`
\* turns into an anyhow::Error
Sensor_get_by_id(tbl, id) ==
    LET hit == {x \in tbl : x.sensor_id = id}
    IN  IF hit = {}
        THEN [res |-> Err(into_anyhow(rusqlite_error(NO_ROWS))), rows |-> <<>>]
        ELSE [res |-> Ok(0), rows |-> <<Sensor_from_row(CHOOSE x \in hit : TRUE)>>]

\* COALESCE(?, column): the bound value unless it is NULL
COALESCE(v, column) == IF v = None THEN column ELSE Unwrap(v)

\* Sensor::update with COALESCE(?, column) for every column
Sensor_update_CoalesceAll(tbl, s, id) ==
    LET hit == {x \in tbl : x.sensor_id = id}
        set(x) == [x EXCEPT !.sensor_name = COALESCE(Some(s.sensor_name), x.sensor_name),
                            !.sensor_type = COALESCE(Some(s.sensor_type), x.sensor_type),
                            !.location = IF s.location = None THEN @ ELSE s.location,
                            !.unit = IF s.unit = None THEN @ ELSE s.unit,
                            !.threshold_min = IF s.threshold_min = None THEN @
                                              ELSE s.threshold_min,
                            !.threshold_max = IF s.threshold_max = None THEN @
                                              ELSE s.threshold_max,
                            !.calibration_date = IF s.calibration_date = None THEN @
                                                 ELSE s.calibration_date,
                            !.notes = IF s.notes = None THEN @ ELSE s.notes]
    IN  IF hit = {}
        THEN [res |-> Err(anyhow_msg("Sensor not found or no changes made")),
              sensors |-> tbl]
        ELSE [res |-> Ok(0), sensors |-> (tbl \ hit) \cup {set(x) : x \in hit}]

\* Sensor::update: UPDATE sensors SET ... WHERE sensor_id = ?, an error when the
\* statement changed no row; the SET list names neither created_at nor updated_at
Sensor_update(tbl, s, id) ==
    LET hit == {x \in tbl : x.sensor_id = id}
        set(x) == [x EXCEPT !.sensor_name = COALESCE(Some(s.sensor_name), x.sensor_name),
                            !.sensor_type = COALESCE(Some(s.sensor_type), x.sensor_type),
                            !.location = s.location,
                            !.unit = s.unit,
                            !.threshold_min = s.threshold_min,
                            !.threshold_max = s.threshold_max,
                            !.calibration_date = s.calibration_date,
                            !.notes = s.notes]
    IN  IF hit = {}
        THEN [res |-> Err(anyhow_msg("Sensor not found or no changes made")),
              sensors |-> tbl]
        ELSE [res |-> Ok(0), sensors |-> (tbl \ hit) \cup {set(x) : x \in hit}]

\* what the schema script can add to an UPDATE of sensors: nothing, or a trigger that
\* sets updated_at of the updated row to the clock
after_update_trigger(trigger, before, after, t) ==
    IF trigger
    THEN {IF x \in before THEN x ELSE [x EXCEPT !.updated_at = t] : x \in after}
    ELSE after

\* Sensor::delete: DELETE FROM sensors WHERE sensor_id = ?, an error when no row went
Sensor_delete(fk, tbl, readingsTbl, sessionsTbl, id) ==
    LET gone == {x \in tbl : x.sensor_id = id}
    IN  IF gone = {}
        THEN [res |-> Err(anyhow_msg("Sensor not found")), sensors |-> tbl,
              readings |-> readingsTbl, logging_sessions |-> sessionsTbl]
        ELSE [res |-> Ok(0), sensors |-> tbl \ gone,
              readings |-> on_delete_cascade(fk, readingsTbl, id),
              logging_sessions |-> on_delete_cascade(fk, sessionsTbl, id)]

\* ------------------------------------------------------------- reading store
reading_row(id, r, timestamp) ==
    [reading_id |-> id, timestamp |-> timestamp, sensor_id |-> r.sensor_id,
     value |-> r.value, state |-> r.state, change_type |-> r.change_type]

\* INSERT INTO readings (...) VALUES (?, ?, ?, ?, ?) on a connection
insert_reading(fk, sensorsTbl, tbl, r, timestamp) ==
    IF fk_check(fk, sensorsTbl, r.sensor_id)
    THEN [err |-> None,
          tbl |-> tbl \cup {reading_row(last_insert_rowid({x.reading_id : x \in tbl}),
                                        r, timestamp)}]
    ELSE [err |-> Some(rusqlite_error(FK_FAILED)), tbl |-> tbl]

\* Reading::create
Reading_create(fk, sensorsTbl, tbl, r, t) ==
    LET timestamp == unwrap_or(r.timestamp, t)
        ins == insert_reading(fk, sensorsTbl, tbl, r, timestamp)
    IN  IF ins.err # None
        THEN [res |-> Err(into_anyhow(Unwrap(ins.err))), readings |-> tbl]
        ELSE [res |-> Ok(SetMax({x.reading_id : x \in ins.tbl})), readings |-> ins.tbl]

\* the loop with the clock read for each row, a second on from one row to the next
RECURSIVE bulk_loop_NowPerRow(_, _, _, _, _, _, _)
bulk_loop_NowPerRow(fk, sensorsTbl, tbl, batch, t, i, count) ==
    IF i > Len(batch)
    THEN [err |-> None, tbl |-> tbl, count |-> count]
    ELSE LET timestamp == unwrap_or(batch[i].timestamp, t + i - 1)
             ins == insert_reading(fk, sensorsTbl, tbl, batch[i], timestamp)
         IN  IF ins.err # None
             THEN [err |-> ins.err, tbl |-> ins.tbl, count |-> count]
             ELSE bulk_loop_NowPerRow(fk, sensorsTbl, ins.tbl, batch, t, i + 1, count + 1)

\* the loop of Reading::bulk_insert from row i on: the first failing row ends it
RECURSIVE bulk_loop(_, _, _, _, _, _, _)
bulk_loop(fk, sensorsTbl, tbl, batch, t, i, count) ==
    IF i > Len(batch)
    THEN [err |-> None, tbl |-> tbl, count |-> count]
    ELSE LET timestamp == unwrap_or(batch[i].timestamp, t)
             ins == insert_reading(fk, sensorsTbl, tbl, batch[i], timestamp)
         IN  IF ins.err # None
             THEN [err |-> ins.err, tbl |-> ins.tbl, count |-> count]
             ELSE bulk_loop(fk, sensorsTbl, ins.tbl, batch, t, i + 1, count + 1)

\* Reading::bulk_insert with the rows inserted outside a transaction: the rows before
\* the failing one stay
Reading_bulk_insert_NoTransaction(fk, sensorsTbl, tbl, batch, t) ==
    LET tx == bulk_loop(fk, sensorsTbl, tbl, batch, t, 1, 0)
    IN  IF tx.err # None
        THEN [res |-> Err(into_anyhow(Unwrap(tx.err))), readings |-> tx.tbl]
        ELSE [res |-> Ok(tx.count), readings |-> tx.tbl]

\* Reading::bulk_insert: one transaction; tx.commit() after the loop, and on `?` the
\* transaction is dropped, which rolls back
Reading_bulk_insert(fk, sensorsTbl, tbl, batch, t) ==
    LET tx == bulk_loop(fk, sensorsTbl, tbl, batch, t, 1, 0)
    IN  IF tx.err # None
        THEN [res |-> Err(into_anyhow(Unwrap(tx.err))), readings |-> tbl]
        ELSE [res |-> Ok(tx.count), readings |-> tx.tbl]

\* Reading::delete_range with `timestamp < ?` for the end of the range
Reading_delete_range_EndExclusive(tbl, sensor_id, start_time, end_time) ==
    LET gone == {x \in tbl : /\ x.timestamp >= start_time
                             /\ x.timestamp < end_time
                             /\ (IsSome(sensor_id) => x.sensor_id = Unwrap(sensor_id))}
    IN  [res |-> Ok(Cardinality(gone)), readings |-> tbl \ gone]

\* Reading::delete_range
Reading_delete_range(tbl, sensor_id, start_time, end_time) ==
    LET gone == {x \in tbl : /\ x.timestamp >= start_time
                             /\ x.timestamp <= end_time
                             /\ (IsSome(sensor_id) => x.sensor_id = Unwrap(sensor_id))}
    IN  [res |-> Ok(Cardinality(gone)), readings |-> tbl \ gone]

\* i64::to_string / usize::to_string: the decimal digits, most significant first
Digit(d) == <<"0", "1", "2", "3", "4", "5", "6", "7", "8", "9">>[d + 1]
RECURSIVE digits(_)
digits(n) == IF n < 10 THEN <<Digit(n)>> ELSE Append(digits(n \div 10), Digit(n % 10))
to_string(n) == IF n < 0 THEN <<"-">> \o digits(0 - n) ELSE digits(n)

\* a bound TEXT parameter compared with an INTEGER column, or used as LIMIT / OFFSET:
\* SQLite converts the text to the integer it spells
DigitVal(ch) == CHOOSE d \in 0..9 : Digit(d) = ch
RECURSIVE parse_digits(_, _)
parse_digits(str, acc) ==
    IF str = <<>> THEN acc ELSE parse_digits(Tail(str), 10 * acc + DigitVal(Head(str)))
numeric_affinity(str) ==
    IF Head(str) = "-" THEN 0 - parse_digits(Tail(str), 0) ELSE parse_digits(str, 0)

\* params.push(v.to_string()) and the value the statement then compares with
bind_text(v) == numeric_affinity(to_string(v))

\* Reading::from_row: a row as a ReadingResponse (a DateTime<Utc> by its epoch seconds)
Reading_from_row(x) ==
    [reading_id |-> x.reading_id, timestamp |-> x.timestamp, sensor_id |-> x.sensor_id,
     value |-> x.value, state |-> x.state, change_type |-> x.change_type]

\* an index on readings(timestamp): the rows in (timestamp, reading_id) order
index_before(x, y) ==
    \/ x.timestamp < y.timestamp
    \/ x.timestamp = y.timestamp /\ x.reading_id < y.reading_id

index_insert(idx, row) ==
    SelectSeq(idx, LAMBDA x : index_before(x, row)) \o <<row>>
        \o SelectSeq(idx, LAMBDA x : index_before(row, x))

RECURSIVE index_insert_all(_, _)
index_insert_all(idx, rows) ==
    IF rows = {} THEN idx
    ELSE LET row == CHOOSE x \in rows : TRUE
         IN  index_insert_all(index_insert(idx, row), rows \ {row})

\* the index after a statement took the table from old to new
index_update(idx, old, new) ==
    index_insert_all(SelectSeq(idx, LAMBDA x : x \in new), new \ old)

\* ORDER BY timestamp ASC: the index scan as it is
order_by_timestamp_asc(scan) == {scan}

\* ORDER BY timestamp DESC: every listing of the rows in non-increasing timestamp
\* order; SQL leaves the order of rows with equal timestamps open, so the rows of
\* equal timestamp appear in every order among themselves
order_by_timestamp_desc(scan) ==
    LET n == Len(scan)
        desc == [i \in 1..n |-> scan[n + 1 - i]]
        tied == {i \in 1..n :
                    \/ i > 1 /\ desc[i - 1].timestamp = desc[i].timestamp
                    \/ i < n /\ desc[i + 1].timestamp = desc[i].timestamp}
        perms == {p \in [tied -> tied] :
                    /\ \A i \in tied : desc[p[i]].timestamp = desc[i].timestamp
                    /\ \A i, j \in tied : i # j => p[i] # p[j]}
    IN  {[i \in 1..n |-> IF i \in tied THEN desc[p[i]] ELSE desc[i]] : p \in perms}

\* LIMIT l OFFSET o
limit_offset(s, l, o) ==
    IF o >= Len(s) THEN <<>>
    ELSE SubSeq(s, o + 1, IF o + l < Len(s) THEN o + l ELSE Len(s))

\* Reading::get with `timestamp > ?` for the start of the range
Reading_get_StartExclusive(idx, q) ==
    LET matches(x) ==
            /\ IsSome(q.sensor_id) => x.sensor_id = bind_text(Unwrap(q.sensor_id))
            /\ IsSome(q.start_time) => x.timestamp > bind_text(Unwrap(q.start_time))
            /\ IsSome(q.end_time) => x.timestamp <= bind_text(Unwrap(q.end_time))
        limit == IF IsSome(q.limit) THEN bind_text(Unwrap(q.limit)) ELSE DefaultLimit
        offset == IF IsSome(q.offset) THEN bind_text(Unwrap(q.offset)) ELSE 0
    IN  {limit_offset([i \in DOMAIN s |-> Reading_from_row(s[i])], limit, offset) :
            s \in order_by_timestamp_desc(SelectSeq(idx, matches))}

\* Reading::get: the results the query can give
Reading_get(idx, q) ==
    LET matches(x) ==
            /\ IsSome(q.sensor_id) => x.sensor_id = bind_text(Unwrap(q.sensor_id))
            /\ IsSome(q.start_time) => x.timestamp >= bind_text(Unwrap(q.start_time))
            /\ IsSome(q.end_time) => x.timestamp <= bind_text(Unwrap(q.end_time))
        limit == IF IsSome(q.limit) THEN bind_text(Unwrap(q.limit)) ELSE DefaultLimit
        offset == IF IsSome(q.offset) THEN bind_text(Unwrap(q.offset)) ELSE 0
    IN  {limit_offset([i \in DOMAIN s |-> Reading_from_row(s[i])], limit, offset) :
            s \in order_by_timestamp_desc(SelectSeq(idx, matches))}

\* Reading::get_current: the results query_row can give for WHERE sensor_id = ?
\* ORDER BY timestamp DESC LIMIT 1; no row is rusqlite's QueryReturnedNoRows, which
\* `?` turns into an anyhow::Error
Reading_get_current(idx, sensor_id) ==
    LET scan == SelectSeq(idx, LAMBDA x : x.sensor_id = sensor_id)
    IN  IF scan = <<>>
        THEN {[res |-> Err(into_anyhow(rusqlite_error(NO_ROWS))), rows |-> <<>>]}
        ELSE {[res |-> Ok(0), rows |-> <<Reading_from_row(s[1])>>] :
                s \in order_by_timestamp_desc(scan)}

\* ------------------------------------------------------------ health report
\* SQLite's integer `/`: the quotient truncated toward zero
sqlite_div(a, b) == IF a >= 0 THEN a \div b ELSE 0 - ((0 - a) \div b)

\* an f64 quotient `num as f64 / den as f64`, kept as the exact fraction
f64_div(num, den) == [num |-> num, den |-> den]

\* SELECT MAX(count) FROM (SELECT COUNT(*) ... GROUP BY timestamp / 3600), with
\* .unwrap_or(0.0) for the NULL an empty table gives
max_hourly_count(tbl) ==
    LET groups == {sqlite_div(x.timestamp, SECONDS_PER_HOUR) : x \in tbl}
    IN  IF tbl = {} THEN 0
        ELSE SetMax({Cardinality({x \in tbl :
                                     sqlite_div(x.timestamp, SECONDS_PER_HOUR) = g}) :
                        g \in groups})

\* SELECT MIN(timestamp) FROM readings read as i64, then .ok(): the NULL of an empty
\* table fails the conversion and becomes None
MIN_timestamp(tbl) ==
    IF tbl = {} THEN None
    ELSE Some(CHOOSE t \in {x.timestamp : x \in tbl} : \A x \in tbl : t <= x.timestamp)

\* SELECT MAX(timestamp) FROM readings read as i64, then .ok()
MAX_timestamp(tbl) ==
    IF tbl = {} THEN None
    ELSE Some(CHOOSE t \in {x.timestamp : x \in tbl} : \A x \in tbl : x.timestamp <= t)

\* the rates with a peak of zero where none can be computed
insert_rates_PeakAlways(tbl, readings_count, oldest_reading, newest_reading) ==
    IF oldest_reading # None /\ newest_reading # None
    THEN LET duration_seconds == Unwrap(newest_reading) - Unwrap(oldest_reading)
         IN  IF duration_seconds > 0
             THEN [average |-> Some(f64_div(readings_count, duration_seconds)),
                   peak |-> Some(f64_div(max_hourly_count(tbl), SECONDS_PER_HOUR))]
             ELSE [average |-> None, peak |-> Some(f64_div(0, SECONDS_PER_HOUR))]
    ELSE [average |-> None, peak |-> None]

\* the rates with the span taken as newest - oldest + 1
insert_rates_SpanInclusive(tbl, readings_count, oldest_reading, newest_reading) ==
    IF oldest_reading # None /\ newest_reading # None
    THEN LET duration_seconds == Unwrap(newest_reading) - Unwrap(oldest_reading) + 1
         IN  IF duration_seconds > 0
             THEN [average |-> Some(f64_div(readings_count, duration_seconds)),
                   peak |-> Some(f64_div(max_hourly_count(tbl), SECONDS_PER_HOUR))]
             ELSE [average |-> None, peak |-> None]
    ELSE [average |-> None, peak |-> None]

\* get_database_health: the two rates
insert_rates(tbl, readings_count, oldest_reading, newest_reading) ==
    IF oldest_reading # None /\ newest_reading # None
    THEN LET duration_seconds == Unwrap(newest_reading) - Unwrap(oldest_reading)
         IN  IF duration_seconds > 0
             THEN [average |-> Some(f64_div(readings_count, duration_seconds)),
                   peak |-> Some(f64_div(max_hourly_count(tbl), SECONDS_PER_HOUR))]
             ELSE [average |-> None, peak |-> None]
    ELSE [average |-> None, peak |-> None]

\* get_database_health: the report on the readings table (the size of the store file
\* and the free space of its volume are read from the file system and not kept here)
DatabaseHealth(tbl) ==
    LET readings_count == Cardinality(tbl)
        stamps == {x.timestamp : x \in tbl}
        oldest_reading ==
            IF readings_count > 0
            THEN Some(CHOOSE t \in stamps : \A u \in stamps : t <= u) ELSE None
        newest_reading ==
            IF readings_count > 0
            THEN Some(CHOOSE t \in stamps : \A u \in stamps : u <= t) ELSE None
        rates == insert_rates(tbl, readings_count, oldest_reading, newest_reading)
    IN  [status |-> IF readings_count > 0 /\ newest_reading # None
                    THEN "healthy" ELSE "empty",
         last_backup |-> None,
         readings_count |-> readings_count,
         oldest_reading |-> oldest_reading,
         newest_reading |-> newest_reading,
         average_insert_rate |-> rates.average,
         peak_insert_rate |-> rates.peak]

\* -------------------------------------------------------------- maintenance
\* get_database_health: the status and the report, from the values its queries gave
DatabaseHealth_from(readings_count, oldest_reading, newest_reading, rates) ==
    [status |-> IF readings_count > 0 /\ newest_reading # None
                THEN "healthy" ELSE "empty",
     last_backup |-> None,
     readings_count |-> readings_count,
     oldest_reading |-> oldest_reading,
     newest_reading |-> newest_reading,
     average_insert_rate |-> rates.average,
     peak_insert_rate |-> rates.peak]

\* the statement of run_maintenance that fails, if one does
MaintenanceFaults ==
    {"none", "BEGIN", "ANALYZE", "PRAGMA optimize", "DELETE", "COMMIT", "VACUUM"}

\* the task loop with VACUUM run where the task is met, inside the transaction
RECURSIVE maintenance_tasks_VacuumInLoop(_, _, _, _, _)
maintenance_tasks_VacuumInLoop(tasks, i, log, tasks_completed, fault) ==
    IF i > Len(tasks)
    THEN [err |-> None, log |-> log, tasks_completed |-> tasks_completed]
    ELSE IF tasks[i] = "analyze"
    THEN IF fault = "ANALYZE"
         THEN [err |-> Some(rusqlite_error(fault)), log |-> log,
               tasks_completed |-> tasks_completed]
         ELSE maintenance_tasks_VacuumInLoop(tasks, i + 1, Append(log, "ANALYZE"),
                                             Append(tasks_completed, "analyze"), fault)
    ELSE IF tasks[i] = "optimize"
    THEN IF fault = "PRAGMA optimize"
         THEN [err |-> Some(rusqlite_error(fault)), log |-> log,
               tasks_completed |-> tasks_completed]
         ELSE maintenance_tasks_VacuumInLoop(tasks, i + 1, Append(log, "PRAGMA optimize"),
                                             Append(tasks_completed, "optimize"), fault)
    ELSE IF tasks[i] = "vacuum"
    THEN maintenance_tasks_VacuumInLoop(tasks, i + 1, Append(log, "VACUUM"),
                                        Append(tasks_completed, "vacuum"), fault)
    ELSE maintenance_tasks_VacuumInLoop(tasks, i + 1, log, tasks_completed, fault)

\* run_maintenance: `for task in &payload.tasks` from task i on, inside the
\* transaction; "vacuum" is only noted, an unknown task is skipped
RECURSIVE maintenance_tasks(_, _, _, _, _)
maintenance_tasks(tasks, i, log, tasks_completed, fault) ==
    IF i > Len(tasks)
    THEN [err |-> None, log |-> log, tasks_completed |-> tasks_completed]
    ELSE IF tasks[i] = "analyze"
    THEN IF fault = "ANALYZE"
         THEN [err |-> Some(rusqlite_error(fault)), log |-> log,
               tasks_completed |-> tasks_completed]
         ELSE maintenance_tasks(tasks, i + 1, Append(log, "ANALYZE"),
                                Append(tasks_completed, "analyze"), fault)
    ELSE IF tasks[i] = "optimize"
    THEN IF fault = "PRAGMA optimize"
         THEN [err |-> Some(rusqlite_error(fault)), log |-> log,
               tasks_completed |-> tasks_completed]
         ELSE maintenance_tasks(tasks, i + 1, Append(log, "PRAGMA optimize"),
                                Append(tasks_completed, "optimize"), fault)
    ELSE IF tasks[i] = "vacuum"
    THEN maintenance_tasks(tasks, i + 1, log, Append(tasks_completed, "vacuum"), fault)
    ELSE maintenance_tasks(tasks, i + 1, log, tasks_completed, fault)

\* the archive delete with `timestamp <= ?`
archive_readings_Inclusive(tbl, archive_before) ==
    {x \in tbl : x.timestamp <= archive_before}

\* DELETE FROM readings WHERE timestamp < ?: the rows that go
archive_readings(tbl, archive_before) ==
    {x \in tbl : x.timestamp < archive_before}

\* the body of a successful maintenance response (elapsed time and file size, read
\* from the clock and the file system, are not kept)
MaintenanceResponse(tasks_completed, archive_count) ==
    [success |-> TRUE, tasks_completed |-> tasks_completed,
     archived_readings |-> archive_count]

\* what run_maintenance gives: the error or the body, the readings table it leaves
\* and the statements it ran; an error before the commit drops the transaction,
\* which rolls back
Maintained(err, tbl, log, body) ==
    [err |-> err, readings |-> tbl, executed |-> log, body |-> body]

\* run_maintenance
run_maintenance_on(tbl, payload, fault) ==
    IF fault = "BEGIN"
    THEN Maintained(Some(rusqlite_error(fault)), tbl, <<>>, <<>>)
    ELSE LET loop == maintenance_tasks(payload.tasks, 1, <<"BEGIN">>, <<>>, fault)
             archiving == payload.archive_before # None
             gone == IF archiving
                     THEN archive_readings(tbl, Unwrap(payload.archive_before)) ELSE {}
             log2 == IF archiving THEN Append(loop.log, "DELETE") ELSE loop.log
             archive_count == Cardinality(gone)
             vacuum == \E i \in DOMAIN payload.tasks : payload.tasks[i] = "vacuum"
         IN  IF loop.err # None
             THEN Maintained(loop.err, tbl, Append(loop.log, "ROLLBACK"), <<>>)
             ELSE IF archiving /\ fault = "DELETE"
             THEN Maintained(Some(rusqlite_error(fault)), tbl,
                             Append(loop.log, "ROLLBACK"), <<>>)
             ELSE IF fault = "COMMIT"
             THEN Maintained(Some(rusqlite_error(fault)), tbl,
                             Append(log2, "ROLLBACK"), <<>>)
             ELSE IF vacuum /\ fault = "VACUUM"
             THEN Maintained(Some(rusqlite_error(fault)), tbl \ gone,
                             Append(log2, "COMMIT"), <<>>)
             ELSE Maintained(None, tbl \ gone,
                             IF vacuum THEN log2 \o <<"COMMIT", "VACUUM">>
                             ELSE Append(log2, "COMMIT"),
                             <<MaintenanceResponse(loop.tasks_completed, archive_count)>>)

\* ------------------------------------------------------------- session store
\* LoggingSession::start without the active_count check
LoggingSession_start_NoActiveCheck(fk, sensorsTbl, tbl, s, t) ==
    LET start_time == unwrap_or(s.start_time, t)
        id == last_insert_rowid({x.session_id : x \in tbl})
        row == [session_id |-> id, sensor_id |-> s.sensor_id, start_time |-> start_time,
                end_time |-> s.end_time, sample_rate |-> s.sample_rate,
                notes |-> s.notes]
    IN  IF ~fk_check(fk, sensorsTbl, s.sensor_id)
        THEN [res |-> Err(into_anyhow(rusqlite_error(FK_FAILED))),
              logging_sessions |-> tbl]
        ELSE [res |-> Ok(id), logging_sessions |-> tbl \cup {row}]

\* LoggingSession::start
LoggingSession_start(fk, sensorsTbl, tbl, s, t) ==
    LET active_count ==
            Cardinality({x \in tbl : x.sensor_id = s.sensor_id /\ x.end_time = None})
        start_time == unwrap_or(s.start_time, t)
        id == last_insert_rowid({x.session_id : x \in tbl})
        row == [session_id |-> id, sensor_id |-> s.sensor_id, start_time |-> start_time,
                end_time |-> s.end_time, sample_rate |-> s.sample_rate,
                notes |-> s.notes]
    IN  IF active_count > 0
        THEN [res |-> Err(anyhow_msg("Sensor already has an active logging session")),
              logging_sessions |-> tbl]
        ELSE IF ~fk_check(fk, sensorsTbl, s.sensor_id)
        THEN [res |-> Err(into_anyhow(rusqlite_error(FK_FAILED))),
              logging_sessions |-> tbl]
        ELSE [res |-> Ok(id), logging_sessions |-> tbl \cup {row}]

\* LoggingSession::start, its first statement: SELECT COUNT(*) ... WHERE sensor_id = ?
\* AND end_time IS NULL
LoggingSession_start_check(tbl, s) ==
    Cardinality({x \in tbl : x.sensor_id = s.sensor_id /\ x.end_time = None})

\* LoggingSession::start, its second statement: the INSERT, on the table as it is then
LoggingSession_start_insert(fk, sensorsTbl, tbl, s, t) ==
    LET start_time == unwrap_or(s.start_time, t)
        id == last_insert_rowid({x.session_id : x \in tbl})
        row == [session_id |-> id, sensor_id |-> s.sensor_id, start_time |-> start_time,
                end_time |-> s.end_time, sample_rate |-> s.sample_rate,
                notes |-> s.notes]
    IN  IF ~fk_check(fk, sensorsTbl, s.sensor_id)
        THEN [res |-> Err(into_anyhow(rusqlite_error(FK_FAILED))),
              logging_sessions |-> tbl]
        ELSE [res |-> Ok(id), logging_sessions |-> tbl \cup {row}]

\* LoggingSession::end without `AND end_time IS NULL`: every session of the sensor
LoggingSession_end_EverySession(tbl, sensor_id, t) ==
    LET hit == {x \in tbl : x.sensor_id = sensor_id}
    IN  IF Cardinality(hit) = 0
        THEN [res |-> Err(anyhow_msg("No active logging session found for this sensor")),
              logging_sessions |-> tbl]
        ELSE [res |-> Ok(0),
              logging_sessions |->
                  (tbl \ hit) \cup {[x EXCEPT !.end_time = Some(t)] : x \in hit}]

\* LoggingSession::end
LoggingSession_end(tbl, sensor_id, t) ==
    LET hit == {x \in tbl : x.sensor_id = sensor_id /\ x.end_time = None}
    IN  IF Cardinality(hit) = 0
        THEN [res |-> Err(anyhow_msg("No active logging session found for this sensor")),
              logging_sessions |-> tbl]
        ELSE [res |-> Ok(0),
              logging_sessions |->
                  (tbl \ hit) \cup {[x EXCEPT !.end_time = Some(t)] : x \in hit}]

\* ------------------------------------------------------------------ inputs
SensorIds == 1..MaxSensorId
Times == 0..MaxTime

SensorInputs ==
    {[sensor_name |-> "A", sensor_type |-> "temperature", location |-> Some("lab"),
      unit |-> Some("C"), threshold_min |-> Some(18), threshold_max |-> Some(25),
      calibration_date |-> None, notes |-> None]}

\* the bodies of PUT /api/sensors/:id
SensorUpdates ==
    {[sensor_name |-> "B", sensor_type |-> "humidity", location |-> None,
      unit |-> Some("%"), threshold_min |-> None, threshold_max |-> Some(70),
      calibration_date |-> Some(1), notes |-> Some("moved")]}

Reading(timestamp, sensor_id, value, state) ==
    [reading_id |-> None, timestamp |-> timestamp, sensor_id |-> sensor_id,
     value |-> value, state |-> state, change_type |-> None]
ReadingInputs ==
    {Reading(None, 1, Some(21), None), Reading(Some(0), 1, None, Some(1)),
     Reading(Some(1), 2, Some(21), None), Reading(None, 2, None, None)}
Batches == UNION {[1..n -> ReadingInputs] : n \in 0..MaxBatch}

ReadingQuery(sensor_id, start_time, end_time, limit, offset) ==
    [sensor_id |-> sensor_id, start_time |-> start_time, end_time |-> end_time,
     limit |-> limit, offset |-> offset]
GetQueries ==
    {ReadingQuery(None, None, None, None, None),
     ReadingQuery(Some(1), None, None, None, None),
     ReadingQuery(None, Some(1), None, None, None),
     ReadingQuery(None, None, Some(0), None, None),
     ReadingQuery(Some(1), Some(1), None, None, None),
     ReadingQuery(Some(1), None, Some(0), None, None),
     ReadingQuery(None, Some(0), Some(1), None, None),
     ReadingQuery(Some(1), Some(0), Some(1), None, None),
     ReadingQuery(None, None, None, Some(1), None),
     ReadingQuery(None, None, None, Some(1), Some(1)),
     ReadingQuery(None, None, None, None, Some(1)),
     ReadingQuery(None, None, None, Some(0), None),
     ReadingQuery(Some(1), Some(0), Some(1), Some(1), Some(1))}
DeleteQueries ==
    {ReadingQuery(None, None, Some(0), None, None),
     ReadingQuery(None, Some(0), None, None, None),
     ReadingQuery(None, None, None, None, None)}
    \cup {ReadingQuery(sid, Some(t0), Some(t1), None, None) :
            sid \in {None, Some(1)}, t0 \in Times, t1 \in Times}

\* the bodies of POST /api/system/maintenance
MaintenanceRequest(tasks, archive_before) ==
    [tasks |-> tasks, archive_before |-> archive_before]
MaintenanceRequests ==
    {MaintenanceRequest(tasks, archive_before) :
        tasks \in {<<"analyze", "optimize">>, <<"vacuum">>,
                   <<"vacuum", "analyze", "reindex">>},
        archive_before \in {None, Some(1), Some(2)}}

LoggingSession(sensor_id, start_time, end_time) ==
    [session_id |-> None, sensor_id |-> sensor_id, start_time |-> start_time,
     end_time |-> end_time, sample_rate |-> Some(300), notes |-> None]
SessionInputs ==
    {LoggingSession(1, None, None), LoggingSession(2, Some(0), None),
     LoggingSession(1, Some(0), Some(1))}

\* ---------------------------------------------------------------- handlers
\* what every store call leaves alone, whether it runs at once or step by step
Accepting ==
    /\ phase = "serving"
    /\ get_connection(DB_POOL).err = None
    /\ pre' = Snapshot
    /\ UNCHANGED <<phase, boots, DB_POOL, tables, schema_version, scripts_applied, now,
                   seeded>>

\* the store's write lock is free: no connection has a write transaction open (a
\* writer that finds it taken waits for it)
WriteLockFree == \A c \in Conns : inflight[c].pc # "bulk_insert"

\* the store calls in progress on the connections
InFlight == {c \in Conns : inflight[c] # Idle}

\* a handler that runs to its end on a connection resting in the pool
Serving ==
    /\ Accepting
    /\ InFlight # Conns
    /\ UNCHANGED <<inflight, executed>>

\* the index follows the table
Reindex ==
    idx_readings_timestamp' = index_update(idx_readings_timestamp, readings, readings')

Reply(op, args, res, status, rows) ==
    IF res.err = None
    THEN Response(op, args, status, None, res.ret, rows)
    ELSE Failure(op, args, Unwrap(res.err))

\* POST /api/sensors
create_sensor ==
    /\ Serving
    /\ WriteLockFree
    /\ last_insert_rowid({x.sensor_id : x \in sensors}) <= MaxSensorId
    /\ \E s \in SensorInputs :
         LET r == Sensor_create(sensors, s, now)
         IN  /\ sensors' = r.sensors
             /\ last' = Reply("create_sensor", [NoArgs EXCEPT !.sensor = Some(s)],
                               r.res, CREATED, <<>>)
    /\ UNCHANGED <<readings, idx_readings_timestamp, logging_sessions>>

\* GET /api/sensors/:id
get_sensor_by_id ==
    /\ Serving
    /\ \E id \in SensorIds :
         LET r == Sensor_get_by_id(sensors, id)
         IN  last' = Reply("get_sensor_by_id", [NoArgs EXCEPT !.id = Some(id)],
                           r.res, OK, r.rows)
    /\ UNCHANGED <<sensors, readings, idx_readings_timestamp, logging_sessions>>

\* PUT /api/sensors/:id
update_sensor ==
    /\ Serving
    /\ WriteLockFree
    /\ \E id \in SensorIds, s \in SensorUpdates, trigger \in BOOLEAN :
         LET r == Sensor_update(sensors, s, id)
         IN  /\ sensors' = after_update_trigger(trigger, sensors, r.sensors, now)
             /\ last' = Reply("update_sensor",
                               [NoArgs EXCEPT !.id = Some(id), !.sensor = Some(s)],
                               r.res, OK, <<>>)
    /\ UNCHANGED <<readings, idx_readings_timestamp, logging_sessions>>

\* DELETE /api/sensors/:id
delete_sensor ==
    /\ Serving
    /\ WriteLockFree
    /\ \E id \in SensorIds, c \in Conns :
         LET r == Sensor_delete(foreign_keys(c), sensors, readings, logging_sessions, id)
         IN  /\ sensors' = r.sensors
             /\ readings' = r.readings
             /\ logging_sessions' = r.logging_sessions
             /\ last' = Reply("delete_sensor", [NoArgs EXCEPT !.id = Some(id)],
                               r.res, OK, <<>>)
    /\ Reindex

\* POST /api/readings
create_reading ==
    /\ Serving
    /\ WriteLockFree
    /\ last_insert_rowid({x.reading_id : x \in readings}) <= seeded + MaxReadingId
    /\ \E rd \in ReadingInputs, c \in Conns :
         LET r == Reading_create(foreign_keys(c), sensors, readings, rd, now)
         IN  /\ readings' = r.readings
             /\ last' = Reply("create_reading", [NoArgs EXCEPT !.readings = <<rd>>],
                               r.res, CREATED, <<>>)
    /\ Reindex
    /\ UNCHANGED <<sensors, logging_sessions>>

\* POST /api/readings/bulk
bulk_import_readings ==
    /\ Serving
    /\ WriteLockFree
    /\ \E batch \in Batches, c \in Conns :
         LET r == Reading_bulk_insert(foreign_keys(c), sensors, readings, batch, now)
         IN  /\ last_insert_rowid({x.reading_id : x \in readings}) + Len(batch) - 1
                    <= seeded + MaxReadingId
             /\ readings' = r.readings
             /\ last' = Reply("bulk_import_readings",
                               [NoArgs EXCEPT !.readings = batch], r.res, OK, <<>>)
    /\ Reindex
    /\ UNCHANGED <<sensors, logging_sessions>>

\* POST /api/readings/bulk on a worker thread, up to the loop: the transaction is
\* open on a connection, the clock is read and the write lock is taken for the
\* first INSERT
bulk_insert_begin ==
    /\ Accepting
    /\ WriteLockFree
    /\ \E batch \in Batches, c \in Conns :
         /\ inflight[c] = Idle
         /\ last_insert_rowid({x.reading_id : x \in readings}) + Len(batch) - 1
                <= seeded + MaxReadingId
         /\ inflight' = [inflight EXCEPT ![c] =
                            [pc |-> "bulk_insert", batch |-> batch, i |-> 1,
                             now |-> now, tx |-> readings, inserted |-> {}, count |-> 0]]
         /\ last' = Step("bulk_insert_begin", [NoArgs EXCEPT !.readings = batch])
    /\ UNCHANGED <<sensors, readings, idx_readings_timestamp, logging_sessions, executed>>

\* one turn of the loop with the row written outside the transaction
bulk_insert_row_Autocommit ==
    /\ Accepting
    /\ \E c \in Conns :
         /\ inflight[c].pc = "bulk_insert"
         /\ inflight[c].i <= Len(inflight[c].batch)
         /\ LET f == inflight[c]
                r == f.batch[f.i]
                ins == insert_reading(foreign_keys(c), sensors, readings, r,
                                      unwrap_or(r.timestamp, f.now))
            IN  IF ins.err # None
                THEN /\ inflight' = [inflight EXCEPT ![c] = Idle]
                     /\ last' = Failure("bulk_import_readings",
                                         [NoArgs EXCEPT !.readings = f.batch],
                                         into_anyhow(Unwrap(ins.err)))
                     /\ UNCHANGED readings
                ELSE /\ inflight' = [inflight EXCEPT ![c] =
                                        [f EXCEPT !.i = @ + 1, !.tx = ins.tbl,
                                                  !.inserted = {x.reading_id : x \in ins.tbl \ readings} \cup @,
                                                  !.count = @ + 1]]
                     /\ readings' = ins.tbl
                     /\ last' = Step("bulk_insert_row",
                                      [NoArgs EXCEPT !.readings = f.batch])
    /\ Reindex
    /\ UNCHANGED <<sensors, logging_sessions, executed>>

\* one turn of the loop: the INSERT of row i inside the transaction; its error
\* leaves bulk_insert by `?`, which drops the transaction and rolls it back
bulk_insert_row ==
    /\ Accepting
    /\ \E c \in Conns :
         /\ inflight[c].pc = "bulk_insert"
         /\ inflight[c].i <= Len(inflight[c].batch)
         /\ LET f == inflight[c]
                r == f.batch[f.i]
                ins == insert_reading(foreign_keys(c), sensors, f.tx, r,
                                      unwrap_or(r.timestamp, f.now))
            IN  IF ins.err # None
                THEN /\ inflight' = [inflight EXCEPT ![c] = Idle]
                     /\ last' = Failure("bulk_import_readings",
                                         [NoArgs EXCEPT !.readings = f.batch],
                                         into_anyhow(Unwrap(ins.err)))
                ELSE /\ inflight' = [inflight EXCEPT ![c] =
                                        [f EXCEPT !.i = @ + 1, !.tx = ins.tbl,
                                                  !.inserted = {x.reading_id : x \in ins.tbl \ f.tx} \cup @,
                                                  !.count = @ + 1]]
                     /\ last' = Step("bulk_insert_row",
                                      [NoArgs EXCEPT !.readings = f.batch])
    /\ UNCHANGED <<sensors, readings, idx_readings_timestamp, logging_sessions, executed>>

\* after the loop: tx.commit() makes the rows of the transaction the table
bulk_insert_commit ==
    /\ Accepting
    /\ \E c \in Conns :
         /\ inflight[c].pc = "bulk_insert"
         /\ inflight[c].i > Len(inflight[c].batch)
         /\ readings' = inflight[c].tx
         /\ last' = Reply("bulk_import_readings",
                           [NoArgs EXCEPT !.readings = inflight[c].batch],
                           Ok(inflight[c].count), OK, <<>>)
         /\ inflight' = [inflight EXCEPT ![c] = Idle]
    /\ Reindex
    /\ UNCHANGED <<sensors, logging_sessions, executed>>

\* GET /api/readings
get_readings ==
    /\ Serving
    /\ \E q \in GetQueries :
         \E rows \in Reading_get(idx_readings_timestamp, q) :
            last' = Response("get_readings", [NoArgs EXCEPT !.query = Some(q)],
                             OK, None, -1, rows)
    /\ UNCHANGED <<sensors, readings, idx_readings_timestamp, logging_sessions>>

\* GET /api/readings/current/:sensor_id
get_current_reading ==
    /\ Serving
    /\ \E id \in SensorIds :
         \E r \in Reading_get_current(idx_readings_timestamp, id) :
            last' = Reply("get_current_reading", [NoArgs EXCEPT !.id = Some(id)],
                          r.res, OK, r.rows)
    /\ UNCHANGED <<sensors, readings, idx_readings_timestamp, logging_sessions>>

\* GET /api/system/health
get_database_health ==
    /\ Serving
    /\ last' = Response("get_database_health", NoArgs, OK, None, -1,
                        <<DatabaseHealth(readings)>>)
    /\ UNCHANGED <<sensors, readings, idx_readings_timestamp, logging_sessions>>

\* POST /api/system/maintenance
run_maintenance ==
    /\ Accepting
    /\ WriteLockFree
    /\ InFlight # Conns
    /\ \E payload \in MaintenanceRequests, fault \in MaintenanceFaults :
         LET r == run_maintenance_on(readings, payload, fault)
             args == [NoArgs EXCEPT !.payload = Some(payload), !.fault = fault]
         IN  /\ readings' = r.readings
             /\ executed' = r.executed
             /\ last' = IF r.err = None
                        THEN Response("run_maintenance", args, OK, None, -1, r.body)
                        ELSE Response("run_maintenance", args,
                                      into_response(AppError_from(Unwrap(r.err))),
                                      Some(Unwrap(r.err).msg), -1, <<>>)
    /\ Reindex
    /\ UNCHANGED <<sensors, logging_sessions, inflight>>

\* GET /api/system/health on a worker thread, its first query: SELECT COUNT(*)
health_count ==
    /\ Accepting
    /\ \E c \in Conns :
         /\ inflight[c] = Idle
         /\ inflight' = [inflight EXCEPT ![c] =
                            [pc |-> "health_oldest",
                             readings_count |-> Cardinality(readings)]]
    /\ last' = Step("health_count", NoArgs)
    /\ UNCHANGED <<sensors, readings, idx_readings_timestamp, logging_sessions, executed>>

\* its second query, run when the count was positive: SELECT MIN(timestamp)
health_oldest ==
    /\ Accepting
    /\ \E c \in Conns :
         /\ inflight[c].pc = "health_oldest"
         /\ inflight' = [inflight EXCEPT ![c] =
                            [pc |-> "health_newest",
                             readings_count |-> inflight[c].readings_count,
                             oldest_reading |-> IF inflight[c].readings_count > 0
                                                THEN MIN_timestamp(readings) ELSE None]]
    /\ last' = Step("health_oldest", NoArgs)
    /\ UNCHANGED <<sensors, readings, idx_readings_timestamp, logging_sessions, executed>>

\* its third query, run when the count was positive: SELECT MAX(timestamp)
health_newest ==
    /\ Accepting
    /\ \E c \in Conns :
         /\ inflight[c].pc = "health_newest"
         /\ inflight' = [inflight EXCEPT ![c] =
                            [pc |-> "health_rates",
                             readings_count |-> inflight[c].readings_count,
                             oldest_reading |-> inflight[c].oldest_reading,
                             newest_reading |-> IF inflight[c].readings_count > 0
                                                THEN MAX_timestamp(readings) ELSE None]]
    /\ last' = Step("health_newest", NoArgs)
    /\ UNCHANGED <<sensors, readings, idx_readings_timestamp, logging_sessions, executed>>

\* the rates, with the peak query on the table as it is then, the status and the reply
health_rates ==
    /\ Accepting
    /\ \E c \in Conns :
         /\ inflight[c].pc = "health_rates"
         /\ LET f == inflight[c]
                rates == insert_rates(readings, f.readings_count, f.oldest_reading,
                                      f.newest_reading)
            IN  last' = Response("get_database_health", NoArgs, OK, None, -1,
                                 <<DatabaseHealth_from(f.readings_count, f.oldest_reading,
                                                       f.newest_reading, rates)>>)
         /\ inflight' = [inflight EXCEPT ![c] = Idle]
    /\ UNCHANGED <<sensors, readings, idx_readings_timestamp, logging_sessions, executed>>

\* DELETE /api/readings with end_time optional: a missing end leaves the range open
delete_readings_EndOptional ==
    /\ Serving
    /\ WriteLockFree
    /\ \E q \in DeleteQueries :
         LET args == [NoArgs EXCEPT !.query = Some(q)]
         IN  IF q.start_time = None
             THEN /\ last' = Response("delete_readings", args,
                                       into_response(AppError_BadRequest("start_time is required")),
                                       Some("start_time is required"), -1, <<>>)
                  /\ UNCHANGED readings
             ELSE LET gone == {x \in readings :
                                  /\ x.timestamp >= Unwrap(q.start_time)
                                  /\ IsSome(q.end_time) => x.timestamp <= Unwrap(q.end_time)
                                  /\ IsSome(q.sensor_id) => x.sensor_id = Unwrap(q.sensor_id)}
                  IN  /\ readings' = readings \ gone
                      /\ last' = Reply("delete_readings", args, Ok(Cardinality(gone)),
                                        OK, <<>>)
    /\ Reindex
    /\ UNCHANGED <<sensors, logging_sessions>>

\* DELETE /api/readings: start_time and end_time are required
delete_readings ==
    /\ Serving
    /\ WriteLockFree
    /\ \E q \in DeleteQueries :
         LET args == [NoArgs EXCEPT !.query = Some(q)]
         IN  IF q.start_time = None
             THEN /\ last' = Response("delete_readings", args,
                                       into_response(AppError_BadRequest("start_time is required")),
                                       Some("start_time is required"), -1, <<>>)
                  /\ UNCHANGED readings
             ELSE IF q.end_time = None
             THEN /\ last' = Response("delete_readings", args,
                                       into_response(AppError_BadRequest("end_time is required")),
                                       Some("end_time is required"), -1, <<>>)
                  /\ UNCHANGED readings
             ELSE LET r == Reading_delete_range(readings, q.sensor_id,
                                                Unwrap(q.start_time), Unwrap(q.end_time))
                  IN  /\ readings' = r.readings
                      /\ last' = Reply("delete_readings", args, r.res, OK, <<>>)
    /\ Reindex
    /\ UNCHANGED <<sensors, logging_sessions>>

\* POST /api/sessions
start_logging ==
    /\ Serving
    /\ WriteLockFree
    /\ last_insert_rowid({x.session_id : x \in logging_sessions}) <= MaxSessionId
    /\ \E ses \in SessionInputs, c \in Conns :
         LET r == LoggingSession_start(foreign_keys(c), sensors, logging_sessions, ses, now)
         IN  /\ logging_sessions' = r.logging_sessions
             /\ last' = Reply("start_logging", [NoArgs EXCEPT !.session = Some(ses)],
                               r.res, CREATED, <<>>)
    /\ UNCHANGED <<sensors, readings, idx_readings_timestamp>>

\* POST /api/sessions on a worker thread, up to the check: the count of the sensor's
\* active sessions is read and, when it is positive, the call returns its error
start_logging_check ==
    /\ Accepting
    /\ last_insert_rowid({x.session_id : x \in logging_sessions}) + Cardinality(InFlight)
          <= MaxSessionId
    /\ \E ses \in SessionInputs, c \in Conns :
         /\ inflight[c] = Idle
         /\ IF LoggingSession_start_check(logging_sessions, ses) > 0
            THEN /\ last' = Failure("start_logging", [NoArgs EXCEPT !.session = Some(ses)],
                                     anyhow_msg("Sensor already has an active logging session"))
                 /\ UNCHANGED inflight
            ELSE /\ inflight' = [inflight EXCEPT ![c] = [pc |-> "start_insert",
                                                         session |-> ses]]
                 /\ last' = Step("start_logging_check",
                                  [NoArgs EXCEPT !.session = Some(ses)])
    /\ UNCHANGED <<sensors, readings, idx_readings_timestamp, logging_sessions, executed>>

\* the same call from the check on: the INSERT and the reply
start_logging_insert ==
    /\ Accepting
    /\ WriteLockFree
    /\ \E c \in Conns :
         /\ inflight[c].pc = "start_insert"
         /\ LET ses == inflight[c].session
                r == LoggingSession_start_insert(foreign_keys(c), sensors,
                                                 logging_sessions, ses, now)
            IN  /\ logging_sessions' = r.logging_sessions
                /\ last' = Reply("start_logging", [NoArgs EXCEPT !.session = Some(ses)],
                                  r.res, CREATED, <<>>)
         /\ inflight' = [inflight EXCEPT ![c] = Idle]
    /\ UNCHANGED <<sensors, readings, idx_readings_timestamp, executed>>

\* POST /api/sessions/end/:sensor_id
end_logging ==
    /\ Serving
    /\ WriteLockFree
    /\ \E id \in SensorIds :
         LET r == LoggingSession_end(logging_sessions, id, now)
         IN  /\ logging_sessions' = r.logging_sessions
             /\ last' = Reply("end_logging", [NoArgs EXCEPT !.id = Some(id)],
                               r.res, OK, <<>>)
    /\ UNCHANGED <<sensors, readings, idx_readings_timestamp>>

\* the process ends and is started again on the same store file
Restart ==
    /\ phase \in {"serving", "exited"}
    /\ boots < MaxBoots
    /\ phase' = "boot"
    /\ boots' = boots + 1
    /\ DB_POOL' = None
    /\ inflight' = [c \in Conns |-> Idle]
    /\ UNCHANGED <<tables, schema_version, scripts_applied, sensors, readings,
                   idx_readings_timestamp, seeded, logging_sessions, now, executed,
                   pre, last>>

\* the wall clock advances
Tick ==
    /\ now < MaxTime
    /\ now' = now + 1
    /\ UNCHANGED <<phase, boots, DB_POOL, tables, schema_version, scripts_applied,
                   sensors, readings, idx_readings_timestamp, seeded, logging_sessions,
                   inflight, executed, pre, last>>

\* ------------------------------------------------------------ specification
Init ==
    /\ phase = "boot"
    /\ boots = 0
    /\ DB_POOL = None
    /\ tables = {}
    /\ schema_version = {}
    /\ scripts_applied = 0
    /\ sensors = {}
    /\ readings = {}
    /\ idx_readings_timestamp = <<>>
    /\ seeded = 0
    /\ logging_sessions = {}
    /\ now = 0
    /\ inflight = [c \in Conns |-> Idle]
    /\ executed = <<>>
    /\ pre = Snapshot
    /\ last = Response("none", NoArgs, OK, None, -1, <<>>)

Next ==
    \/ main
    \/ init_pool_again
    \/ Restart
    \/ Tick
    \/ create_sensor
    \/ get_sensor_by_id
    \/ update_sensor
    \/ delete_sensor
    \/ create_reading
    \/ bulk_import_readings
    \/ bulk_insert_begin
    \/ bulk_insert_row
    \/ bulk_insert_commit
    \/ get_readings
    \/ get_current_reading
    \/ delete_readings
    \/ get_database_health
    \/ health_count
    \/ health_oldest
    \/ health_newest
    \/ health_rates
    \/ run_maintenance
    \/ start_logging
    \/ start_logging_check
    \/ start_logging_insert
    \/ end_logging

Spec == Init /\ [][Next]_vars

\* the sensor store
NextSensors ==
    \/ main
    \/ Tick
    \/ create_sensor
    \/ get_sensor_by_id
    \/ update_sensor
    \/ delete_sensor

SpecSensors == Init /\ [][NextSensors]_vars

\* the reading store with the sensors it references
NextReadings ==
    \/ main
    \/ Tick
    \/ create_sensor
    \/ delete_sensor
    \/ create_reading
    \/ bulk_import_readings
    \/ get_readings
    \/ get_current_reading
    \/ delete_readings

SpecReadings == Init /\ [][NextReadings]_vars

\* the session store with the sensors it references
NextSessions ==
    \/ main
    \/ Tick
    \/ create_sensor
    \/ delete_sensor
    \/ start_logging
    \/ end_logging

SpecSessions == Init /\ [][NextSessions]_vars

\* every request that adds or removes a row of the three entity tables
NextIntegrity ==
    \/ main
    \/ create_sensor
    \/ delete_sensor
    \/ create_reading
    \/ bulk_import_readings
    \/ start_logging
    \/ end_logging

SpecIntegrity == Init /\ [][NextIntegrity]_vars

\* the reading store's range delete beside rows of every table
NextDelete ==
    \/ main
    \/ Tick
    \/ create_sensor
    \/ create_reading
    \/ start_logging
    \/ delete_readings

SpecDelete == Init /\ [][NextDelete]_vars

\* a store that already holds nearly DefaultLimit readings, as left by earlier
\* create and bulk insert calls: one sensor, and its reading i at time i + 1
SeedSizes == {DefaultLimit - 2, DefaultLimit - 1}
SeedRow(i) == reading_row(i, Reading(Some(i + 1), 1, Some(21), None), i + 1)
SeedSensors == Sensor_create({}, CHOOSE s \in SensorInputs : TRUE, 0).sensors

InitLarge ==
    /\ phase = "serving"
    /\ boots = 0
    /\ DB_POOL = Some(Pool_new(DEFAULT_DATABASE_PATH))
    /\ tables = InitialSchemaTables \cup {"schema_version"}
    /\ schema_version = {CURRENT_VERSION}
    /\ scripts_applied = 1
    /\ sensors = SeedSensors
    /\ seeded \in SeedSizes
    /\ readings = {SeedRow(i) : i \in 1..seeded}
    /\ idx_readings_timestamp = [i \in 1..seeded |-> SeedRow(i)]
    /\ logging_sessions = {}
    /\ now = MaxTime
    /\ inflight = [c \in Conns |-> Idle]
    /\ executed = <<>>
    /\ pre = Snapshot
    /\ last = Response("none", NoArgs, OK, None, -1, <<>>)

NextLarge ==
    \/ bulk_import_readings
    \/ get_readings

SpecLarge == InitLarge /\ [][NextLarge]_vars

\* a store holding up to MaxHealthSeed readings of one sensor, as left by create
\* calls that supplied their timestamps: around the epoch and around the hour marks
HealthTimes ==
    {0 - SECONDS_PER_HOUR, 0 - 1, 0, 1, SECONDS_PER_HOUR - 1, SECONDS_PER_HOUR}
RECURSIVE HealthStore(_)
HealthStore(stamps) ==
    IF stamps = <<>> THEN {}
    ELSE LET n == Len(stamps)
         IN  HealthStore(SubSeq(stamps, 1, n - 1))
                \cup {reading_row(n, Reading(Some(stamps[n]), 1, Some(21), None), stamps[n])}

InitHealth ==
    /\ phase = "serving"
    /\ boots = 0
    /\ DB_POOL = Some(Pool_new(DEFAULT_DATABASE_PATH))
    /\ tables = InitialSchemaTables \cup {"schema_version"}
    /\ schema_version = {CURRENT_VERSION}
    /\ scripts_applied = 1
    /\ sensors = SeedSensors
    /\ seeded \in 0..MaxHealthSeed
    /\ readings \in {HealthStore(stamps) : stamps \in [1..seeded -> HealthTimes]}
    /\ idx_readings_timestamp = index_insert_all(<<>>, readings)
    /\ logging_sessions = {}
    /\ now = 0
    /\ inflight = [c \in Conns |-> Idle]
    /\ executed = <<>>
    /\ pre = Snapshot
    /\ last = Response("none", NoArgs, OK, None, -1, <<>>)

NextHealth ==
    \/ create_reading
    \/ get_database_health

SpecHealth == InitHealth /\ [][NextHealth]_vars

\* maintenance on the stores that create calls leave
NextMaintenance ==
    \/ main
    \/ create_sensor
    \/ create_reading
    \/ run_maintenance

SpecMaintenance == Init /\ [][NextMaintenance]_vars

\* session starts on worker threads that run side by side
NextConcurrentStart ==
    \/ main
    \/ Tick
    \/ create_sensor
    \/ start_logging_check
    \/ start_logging_insert
    \/ end_logging

SpecConcurrentStart == Init /\ [][NextConcurrentStart]_vars

\* reads on one connection while a bulk insert runs on another
NextConcurrentBulk ==
    \/ main
    \/ create_sensor
    \/ create_reading
    \/ bulk_insert_begin
    \/ bulk_insert_row
    \/ bulk_insert_commit
    \/ get_readings
    \/ get_current_reading

SpecConcurrentBulk == Init /\ [][NextConcurrentBulk]_vars

\* a health report computed while other connections insert and delete
NextConcurrentHealth ==
    \/ main
    \/ create_sensor
    \/ create_reading
    \/ delete_readings
    \/ health_count
    \/ health_oldest
    \/ health_newest
    \/ health_rates

SpecConcurrentHealth == Init /\ [][NextConcurrentHealth]_vars

\* process starts and restarts on one store
NextBoot ==
    \/ main
    \/ init_pool_again
    \/ Restart
    \/ Tick
    \/ create_sensor

SpecBoot == Init /\ [][NextBoot]_vars

\* ------------------------------------------------------------------ claims
Active(tbl, sensor_id) == {x \in tbl : x.sensor_id = sensor_id /\ x.end_time = None}
SensorExists(tbl, sensor_id) == \E x \in tbl : x.sensor_id = sensor_id

\* C1: a bulk insert in which at least one row references no existing sensor, at any
\* position of the batch, returns one error and leaves the readings table exactly as
\* it was before the call.
C1_BulkInsertAllOrNothing ==
    (/\ last.op = "bulk_import_readings"
     /\ \E i \in DOMAIN last.args.readings :
            ~SensorExists(pre.sensors, last.args.readings[i].sensor_id))
    => /\ last.err = Some(FK_FAILED)
       /\ last.ret = -1
       /\ readings = pre.readings

\* a batch whose first row is valid and whose second is not was rolled back
C1_Witness ==
    /\ last.op = "bulk_import_readings"
    /\ Len(last.args.readings) = 2
    /\ SensorExists(pre.sensors, last.args.readings[1].sensor_id)
    /\ ~SensorExists(pre.sensors, last.args.readings[2].sensor_id)
    /\ last.err # None
    /\ readings = pre.readings

\* C2: in every state reached by start, end and sensor delete calls run one after
\* another, each sensor has at most one session whose end_time is null.
C2_AtMostOneActiveSession ==
    \A sid \in SensorIds : Cardinality(Active(logging_sessions, sid)) <= 1

\* a sensor with an ended session and, started after it, an active one
C2_Witness ==
    \E a, b \in logging_sessions :
        /\ a.sensor_id = b.sensor_id
        /\ a.end_time # None
        /\ b.end_time = None
        /\ a.session_id < b.session_id

\* C3: starting a session for a sensor that has an active session fails with Conflict
\* as the caller sees it and leaves logging_sessions as it was.
C3_StartWhileActiveIsConflict ==
    (/\ last.op = "start_logging"
     /\ Active(pre.logging_sessions, Unwrap(last.args.session).sensor_id) # {})
    => /\ last.status = CONFLICT
       /\ logging_sessions = pre.logging_sessions

\* C4: on a store already at the target version a further run of the migrator applies
\* no script, inserts no schema_version row, leaves the recorded version unchanged
\* and, when the pool is built and the schema_version table can be ensured, returns
\* Ok; after any number of runs.
C4_MigrationsIdempotent ==
    (/\ last.op = "init_pool"
     /\ current_version(pre.schema_version) = CURRENT_VERSION)
    => /\ scripts_applied = pre.scripts_applied
       /\ schema_version = pre.schema_version
       /\ current_version(schema_version) = current_version(pre.schema_version)
       /\ last.args.fault \notin {"pool", "create_table"} => last.err = None

\* a second start of the process on a migrated store
C4_Witness ==
    /\ last.op = "init_pool"
    /\ boots >= 1
    /\ current_version(pre.schema_version) = CURRENT_VERSION
    /\ last.err = None
    /\ phase = "serving"

NoFilters == ReadingQuery(None, None, None, None, None)
Listed(rows) == {rows[i] : i \in DOMAIN rows}
NonIncreasing(rows) ==
    \A i \in DOMAIN rows : i > 1 => rows[i - 1].timestamp >= rows[i].timestamp
\* the rows bulk inserts have added to the seeded store
Inserted == {x \in readings : x.reading_id > seeded}
ValidBatch(batch, sensorsTbl) ==
    \A i \in DOMAIN batch :
        /\ SensorExists(sensorsTbl, batch[i].sensor_id)
        /\ batch[i].value # None \/ batch[i].state # None

\* what C5 says of the bulk insert itself
C5_BulkInsertStoresEveryRow ==
    (last.op = "bulk_import_readings" /\ ValidBatch(last.args.readings, pre.sensors))
    => /\ last.err = None
       /\ last.ret = Len(last.args.readings)
       /\ pre.readings \subseteq readings
       /\ Cardinality(readings) = Cardinality(pre.readings) + Len(last.args.readings)

C6_DeleteRangeExact ==
    (/\ last.op = "delete_readings"
     /\ Unwrap(last.args.query).start_time # None
     /\ Unwrap(last.args.query).end_time # None)
    => LET q == Unwrap(last.args.query)
           gone == {x \in pre.readings :
                      /\ Unwrap(q.start_time) <= x.timestamp
                      /\ x.timestamp <= Unwrap(q.end_time)
                      /\ (q.sensor_id # None => x.sensor_id = Unwrap(q.sensor_id))}
       IN  /\ readings = pre.readings \ gone
           /\ sensors = pre.sensors
           /\ logging_sessions = pre.logging_sessions
           /\ last.err = None
           /\ last.ret = Cardinality(gone)

\* a delete that removed a row on each bound of the range and kept another row, with
\* sessions in the store
C6_Witness ==
    /\ last.op = "delete_readings"
    /\ last.err = None
    /\ last.ret >= 1
    /\ \E x \in pre.readings \ readings :
          x.timestamp = Unwrap(Unwrap(last.args.query).end_time)
    /\ \E x \in pre.readings \ readings :
          x.timestamp = Unwrap(Unwrap(last.args.query).start_time)
    /\ readings # {}
    /\ logging_sessions # {}

\* C7: every reading row and every session row references a sensor that exists;
\* after a successful Sensor::delete(id) no reading and no session of that sensor
\* remains and the rows of all other sensors are unchanged.
C7_ReferentialIntegrity ==
    /\ \A x \in readings \cup logging_sessions : SensorExists(sensors, x.sensor_id)
    /\ (last.op = "delete_sensor" /\ last.err = None)
       => LET id == Unwrap(last.args.id)
          IN  /\ sensors = {x \in pre.sensors : x.sensor_id # id}
              /\ readings = {x \in pre.readings : x.sensor_id # id}
              /\ logging_sessions = {x \in pre.logging_sessions : x.sensor_id # id}

\* a sensor with readings and sessions was deleted beside another sensor's rows
C7_Witness ==
    /\ last.op = "delete_sensor"
    /\ last.err = None
    /\ \E x \in pre.readings : x.sensor_id = Unwrap(last.args.id)
    /\ \E x \in pre.logging_sessions : x.sensor_id = Unwrap(last.args.id)
    /\ readings # {}
    /\ logging_sessions # {}

\* C8: a reading supplied with neither value nor state (for a sensor that exists, so
\* that nothing but this rule can reject it) is rejected with BadRequest and not
\* inserted, so no reading row has both value and state null.
C8_ValueOrStatePresent ==
    /\ \A x \in readings : x.value # None \/ x.state # None
    /\ (/\ last.op = "create_reading"
        /\ last.args.readings[1].value = None
        /\ last.args.readings[1].state = None
        /\ SensorExists(pre.sensors, last.args.readings[1].sensor_id))
       => /\ last.status = BAD_REQUEST
          /\ readings = pre.readings

\* C9: Reading::create for a sensor_id that references no sensor fails with NotFound
\* as the caller sees it and inserts no row.
C9_CreateForMissingSensorIsNotFound ==
    (/\ last.op = "create_reading"
     /\ ~SensorExists(pre.sensors, last.args.readings[1].sensor_id))
    => /\ last.status = NOT_FOUND
       /\ readings = pre.readings

\* C10: end(sensorId) on a sensor with one active session sets the end_time of
\* exactly that session to a non-null value and leaves every other session row
\* unchanged.
C10_EndFlipsExactlyTheActiveSession ==
    (/\ last.op = "end_logging"
     /\ Cardinality(Active(pre.logging_sessions, Unwrap(last.args.id))) = 1)
    => \E a \in Active(pre.logging_sessions, Unwrap(last.args.id)) :
          \E b \in logging_sessions :
             /\ last.err = None
             /\ b.end_time # None
             /\ b = [a EXCEPT !.end_time = b.end_time]
             /\ logging_sessions \ {b} = pre.logging_sessions \ {a}
             /\ Cardinality(logging_sessions) = Cardinality(pre.logging_sessions)

\* an end beside an ended session of the same sensor and a session of another sensor
C10_Witness ==
    /\ last.op = "end_logging"
    /\ last.err = None
    /\ \E x \in pre.logging_sessions :
          x.sensor_id = Unwrap(last.args.id) /\ x.end_time # None
    /\ \E x \in pre.logging_sessions : x.sensor_id # Unwrap(last.args.id)

\* C11: end(sensorId) on a sensor that has no active session fails with NotFound as
\* the caller sees it and changes no session row.
C11_EndWithoutActiveIsNotFound ==
    (/\ last.op = "end_logging"
     /\ Active(pre.logging_sessions, Unwrap(last.args.id)) = {})
    => /\ last.status = NOT_FOUND
       /\ logging_sessions = pre.logging_sessions

\* the readings a query's supplied filters select
Selected(tbl, q) ==
    {x \in tbl : /\ q.sensor_id # None => x.sensor_id = Unwrap(q.sensor_id)
                 /\ q.start_time # None => x.timestamp >= Unwrap(q.start_time)
                 /\ q.end_time # None => x.timestamp <= Unwrap(q.end_time)}
\* the smaller of two numbers, and a number cut off below at 0
Min(a, b) == IF a <= b THEN a ELSE b
Monus(a, b) == IF a >= b THEN a - b ELSE 0

C13_GetCurrentIsNewestOrNotFound ==
    (last.op = "get_current_reading")
    => LET id == Unwrap(last.args.id)
           own == {x \in readings : x.sensor_id = id}
       IN  IF own = {}
           THEN last.status = NOT_FOUND
           ELSE /\ last.err = None
                /\ Len(last.rows) = 1
                /\ last.rows[1] \in own
                /\ \A x \in own : x.timestamp <= last.rows[1].timestamp

\* the rows a bulk insert stored, in the order of their ids
StoredBy(batch, before, after) ==
    [i \in DOMAIN batch |->
        {x \in after \ before : x.reading_id = last_insert_rowid({y.reading_id : y \in before}) + i - 1}]

\* C14: within one bulk insert every row supplied without a timestamp is stored with
\* the same fallback timestamp, the clock at the start of the batch, and every row
\* supplied with a timestamp is stored with exactly that timestamp.
C14_BulkInsertOneFallbackTimestamp ==
    (last.op = "bulk_import_readings" /\ last.err = None)
    => LET batch == last.args.readings
           stored == StoredBy(batch, pre.readings, readings)
       IN  \A i \in DOMAIN batch :
              /\ Cardinality(stored[i]) = 1
              /\ \A x \in stored[i] :
                    /\ x.sensor_id = batch[i].sensor_id
                    /\ x.timestamp = IF batch[i].timestamp = None THEN pre.now
                                     ELSE Unwrap(batch[i].timestamp)

\* a stored batch of a row without a timestamp and a row with a timestamp other than
\* the clock
C14_Witness ==
    /\ last.op = "bulk_import_readings"
    /\ last.err = None
    /\ Len(last.args.readings) = 2
    /\ \E i \in 1..2 : last.args.readings[i].timestamp = None
    /\ \E i \in 1..2 : /\ last.args.readings[i].timestamp # None
                       /\ Unwrap(last.args.readings[i].timestamp) # pre.now
    /\ Cardinality(readings) = Cardinality(pre.readings) + 2

\* the fields a client supplies for a sensor
InputFields ==
    {"sensor_name", "sensor_type", "location", "unit", "threshold_min",
     "threshold_max", "calibration_date", "notes"}
\* an instant as epoch seconds
Seconds(instant) == instant.secs
\* a fetched record shows the stored row x
Shows(fetched, x) ==
    /\ fetched.sensor_id = x.sensor_id
    /\ \A f \in InputFields \ {"calibration_date"} : fetched[f] = x[f]
    /\ (fetched.calibration_date = None) = (x.calibration_date = None)
    /\ x.calibration_date # None =>
          /\ Seconds(Unwrap(fetched.calibration_date)) = Unwrap(x.calibration_date)
          /\ Unwrap(fetched.calibration_date).nsecs = 0
    /\ Seconds(fetched.created_at) = x.created_at /\ fetched.created_at.nsecs = 0
    /\ Seconds(fetched.updated_at) = x.updated_at /\ fetched.updated_at.nsecs = 0

C16_UpdateRefreshesUpdatedAt ==
    (last.op = "update_sensor" /\ last.err = None)
    => \A x \in sensors :
          x.sensor_id = Unwrap(last.args.id) => x.updated_at > x.created_at

\* C17: after a successful update the sensor has the supplied name and type and the
\* supplied location, unit, thresholds, calibration date and notes, an absent value
\* clearing the stored one; its sensor_id and created_at and every other sensor row
\* are unchanged; an update of an id that does not exist fails and changes no row.
C17_UpdateReplacesFieldsOnly ==
    (last.op = "update_sensor")
    => LET id == Unwrap(last.args.id)
           s == Unwrap(last.args.sensor)
       IN  IF SensorExists(pre.sensors, id)
           THEN /\ last.err = None
                /\ {x \in sensors : x.sensor_id # id}
                      = {x \in pre.sensors : x.sensor_id # id}
                /\ \E x \in sensors, old \in pre.sensors :
                      /\ x.sensor_id = id /\ old.sensor_id = id
                      /\ \A y \in sensors : y.sensor_id = id => y = x
                      /\ \A f \in InputFields : x[f] = s[f]
                      /\ x.created_at = old.created_at
           ELSE /\ last.err # None
                /\ sensors = pre.sensors
                /\ readings = pre.readings
                /\ logging_sessions = pre.logging_sessions

\* an update that cleared a stored location and set a calibration date, beside
\* another sensor
C17_Witness ==
    /\ last.op = "update_sensor"
    /\ last.err = None
    /\ Cardinality(sensors) = 2
    /\ \E x \in sensors, old \in pre.sensors :
          /\ x.sensor_id = Unwrap(last.args.id) /\ old.sensor_id = x.sensor_id
          /\ old.location # None /\ x.location = None
          /\ old.calibration_date = None /\ x.calibration_date # None

\* C18: get_connection() and get_pool() return an error while init_pool has not been
\* called in the process, and every further init leaves get_pool() returning the pool
\* the first init installed.
C18_PoolIsInstalledOnce ==
    /\ phase = "boot" => DB_POOL = None
    /\ DB_POOL = None => /\ get_connection(DB_POOL).err # None
                         /\ get_pool(DB_POOL).err # None
    /\ (phase # "boot" /\ last.op = "init_pool" /\ pre.DB_POOL # None)
       => /\ get_pool(DB_POOL).err = None
          /\ get_pool(DB_POOL).pool = pre.DB_POOL
          /\ \A c \in Conns :
                Unwrap(get_pool(DB_POOL).pool)[c].db_path = DEFAULT_DATABASE_PATH

\* a further init for another path returned Ok and the first pool is still the pool
C18_Witness ==
    /\ phase = "serving"
    /\ last.op = "init_pool"
    /\ last.err = None
    /\ pre.DB_POOL # None
    /\ last.args.db_path # Some(DEFAULT_DATABASE_PATH)
    /\ get_pool(DB_POOL).pool = pre.DB_POOL

\* the greatest and the least element of a non-empty set of integers
Greatest(S) == CHOOSE t \in S : \A u \in S : u <= t
Least(S) == CHOOSE t \in S : \A u \in S : t <= u
Stamps == {x.timestamp : x \in readings}

\* C19: the report's average_insert_rate is absent when the store is empty or its
\* oldest and newest timestamps are equal, and otherwise is the rate with
\* rate * (newest - oldest) = readings_count.
C19_AverageInsertRate ==
    (last.op = "get_database_health")
    => LET h == last.rows[1]
       IN  IF readings = {} \/ Least(Stamps) = Greatest(Stamps)
           THEN h.average_insert_rate = None
           ELSE /\ h.average_insert_rate # None
                /\ Unwrap(h.average_insert_rate).den > 0
                /\ Unwrap(h.average_insert_rate).num * (Greatest(Stamps) - Least(Stamps))
                     = Cardinality(readings) * Unwrap(h.average_insert_rate).den

\* a report on three readings that span an hour and a second
C19_Witness ==
    /\ last.op = "get_database_health"
    /\ Cardinality(readings) = 3
    /\ Greatest(Stamps) - Least(Stamps) = SECONDS_PER_HOUR + 1
    /\ last.rows[1].average_insert_rate # None

\* the readings in the hour-aligned window [3600k, 3600k + 3599]
InHour(k) == {x \in readings : /\ SECONDS_PER_HOUR * k <= x.timestamp
                               /\ x.timestamp <= SECONDS_PER_HOUR * k + SECONDS_PER_HOUR - 1}
\* the hour a timestamp lies in: the k with 3600k <= t <= 3600k + 3599
HourOf(t) == CHOOSE k \in (0 - 2)..2 : SECONDS_PER_HOUR * k <= t /\ t < SECONDS_PER_HOUR * (k + 1)

\* C20: a peak_insert_rate in the report is the greatest number of readings in one
\* hour-aligned window, divided by 3600, negative timestamps included.
C20_PeakInsertRate ==
    (last.op = "get_database_health" /\ last.rows[1].peak_insert_rate # None)
    => LET peak == Unwrap(last.rows[1].peak_insert_rate)
           most == Greatest({Cardinality(InHour(HourOf(t))) : t \in Stamps})
       IN  peak.num * SECONDS_PER_HOUR = most * peak.den

\* C21: a delete-readings request without start_time or without end_time is answered
\* BadRequest and deletes no reading; the range delete is never run on an open range.
C21_DeleteNeedsBothBounds ==
    (/\ last.op = "delete_readings"
     /\ \/ Unwrap(last.args.query).start_time = None
        \/ Unwrap(last.args.query).end_time = None)
    => /\ last.status = BAD_REQUEST
       /\ last.ret = -1
       /\ readings = pre.readings

\* a request with a start and no end, on a store with a reading at or after the start
C21_Witness ==
    /\ last.op = "delete_readings"
    /\ Unwrap(last.args.query).start_time # None
    /\ Unwrap(last.args.query).end_time = None
    /\ \E x \in pre.readings : x.timestamp >= Unwrap(Unwrap(last.args.query).start_time)
    /\ last.status = BAD_REQUEST
    /\ readings = pre.readings

\* C22: requests are served only after the migrator has succeeded: whenever the server
\* accepts requests the recorded schema version is the target version and the tables
\* of the schema exist, and a start whose init_pool fails ends without serving.
C22_ServesOnlyMigrated ==
    /\ phase = "serving"
       => /\ current_version(schema_version) = CURRENT_VERSION
          /\ InitialSchemaTables \subseteq tables
    /\ (phase # "boot" /\ last.op = "init_pool" /\ pre.DB_POOL = None /\ last.err # None)
       => phase = "exited"
    /\ last.op \notin {"none", "init_pool"} => current_version(pre.schema_version) = CURRENT_VERSION

\* a request accepted by a process that was started a second time on its store
C22_Witness ==
    /\ phase = "serving"
    /\ boots = 1
    /\ last.op = "create_sensor"
    /\ last.status = CREATED
    /\ current_version(schema_version) = CURRENT_VERSION

\* C23: the migrator applies the scripts and records the version in one transaction:
\* a run that fails leaves the recorded version and the schema's tables as they were,
\* and over any runs the recorded version never decreases nor exceeds the target.
C23_MigrationIsOneTransaction ==
    /\ current_version(schema_version) <= CURRENT_VERSION
    /\ last.op = "init_pool"
       => /\ current_version(schema_version) >= current_version(pre.schema_version)
          /\ last.err # None
             => /\ schema_version = pre.schema_version
                /\ tables \ {"schema_version"} = pre.tables \ {"schema_version"}
                /\ scripts_applied = pre.scripts_applied
          /\ last.err = None
             => /\ current_version(schema_version) = CURRENT_VERSION
                /\ InitialSchemaTables \subseteq tables

\* a first run whose version insert failed after the script had run
C23_Witness ==
    /\ last.op = "init_pool"
    /\ last.args.fault = "insert"
    /\ last.err # None
    /\ pre.schema_version = {}
    /\ schema_version = {}
    /\ tables = {"schema_version"}

\* a transaction is open after the first n statements of a log
TxOpen(log, n) ==
    \E b \in 1..n : /\ log[b] = "BEGIN"
                    /\ \A j \in (b + 1)..n : log[j] \notin {"COMMIT", "ROLLBACK"}

\* C24: run_maintenance never runs VACUUM while its transaction is open: analyze,
\* optimize and the archive delete run inside one transaction, and VACUUM runs only
\* when "vacuum" is a requested task and only after that transaction has committed.
C24_VacuumOutsideTransaction ==
    (last.op = "run_maintenance")
    => LET tasks == Unwrap(last.args.payload).tasks
       IN  /\ Cardinality({i \in DOMAIN executed : executed[i] = "BEGIN"}) <= 1
           /\ \A i \in DOMAIN executed :
                 /\ executed[i] \in {"ANALYZE", "PRAGMA optimize", "DELETE"}
                    => TxOpen(executed, i - 1)
                 /\ executed[i] = "VACUUM"
                    => /\ \E k \in DOMAIN tasks : tasks[k] = "vacuum"
                       /\ ~TxOpen(executed, i - 1)
                       /\ \E j \in 1..(i - 1) : executed[j] = "COMMIT"

\* a request that names vacuum before analyze and archives: VACUUM ran last
C24_Witness ==
    /\ last.op = "run_maintenance"
    /\ last.err = None
    /\ Unwrap(last.args.payload).tasks = <<"vacuum", "analyze", "reindex">>
    /\ executed = <<"BEGIN", "ANALYZE", "DELETE", "COMMIT", "VACUUM">>

\* C25: a successful run_maintenance with archiveBefore = T deletes exactly the readings
\* with timestamp < T, in the transaction of analyze and optimize, and reports their
\* number; without archiveBefore it deletes nothing and reports 0.
C25_ArchiveDeletesStrictlyOlder ==
    (last.op = "run_maintenance" /\ last.err = None)
    => LET archive_before == Unwrap(last.args.payload).archive_before
           archived == last.rows[1].archived_readings
       IN  IF archive_before # None
           THEN /\ readings = {x \in pre.readings : x.timestamp >= Unwrap(archive_before)}
                /\ archived = Cardinality(pre.readings \ readings)
                /\ \E i \in DOMAIN executed :
                      executed[i] = "DELETE" /\ TxOpen(executed, i - 1)
                /\ Cardinality({i \in DOMAIN executed : executed[i] = "BEGIN"}) = 1
           ELSE /\ readings = pre.readings
                /\ archived = 0
                /\ \A i \in DOMAIN executed : executed[i] # "DELETE"

\* an archive at T over readings at T - 1 and at T: one goes, one stays
C25_Witness ==
    /\ last.op = "run_maintenance"
    /\ last.err = None
    /\ Unwrap(last.args.payload).archive_before = Some(1)
    /\ \E x \in pre.readings : x.timestamp = 0
    /\ \E x \in readings : x.timestamp = 1
    /\ last.rows[1].archived_readings >= 1
    /\ \E i \in DOMAIN executed : executed[i] = "ANALYZE"

\* C26: a run_maintenance that returns an error, whichever step failed, leaves the
\* readings table with exactly the rows it held before the call.
C26_FailedMaintenanceChangesNothing ==
    (last.op = "run_maintenance" /\ last.err # None) => readings = pre.readings

\* C27: when two starts for one sensor run side by side on two connections, however
\* their check and insert steps interleave, at most one succeeds: two sessions of
\* one sensor that both have end_time null are never in the table together.
C27_ConcurrentStartsKeepOneActive ==
    \A x, y \in logging_sessions :
        (x.sensor_id = y.sensor_id /\ x.end_time = None /\ y.end_time = None) => x = y

\* the reading ids in the rows a read returned
ReturnedIds == {last.rows[i].reading_id : i \in DOMAIN last.rows}

\* C28: a get or get_current that runs while a bulk insert is in progress on another
\* connection returns none of the batch's rows; a batch that fails leaves none of its
\* rows for later reads, and once a batch has committed all its rows are in the
\* table that reads are answered from.
C28_ReadsSeeNoPartialBatch ==
    /\ (last.op \in {"get_readings", "get_current_reading"})
       => /\ \A c \in Conns :
                pre.inflight[c].pc = "bulk_insert"
                => ReturnedIds \cap pre.inflight[c].inserted = {}
          /\ ReturnedIds \subseteq {x.reading_id : x \in readings}
    /\ \A c \in Conns :
          inflight[c].pc = "bulk_insert"
          => /\ readings \cap (inflight[c].tx \ readings) = {}
             /\ idx_readings_timestamp = index_insert_all(<<>>, readings)
             /\ \A i \in DOMAIN idx_readings_timestamp :
                   idx_readings_timestamp[i].reading_id \notin inflight[c].inserted
    /\ (last.op = "bulk_import_readings")
       => \E c \in Conns :
             /\ pre.inflight[c].pc = "bulk_insert"
             /\ inflight[c] = Idle
             /\ IF last.err = None
                THEN /\ readings = pre.inflight[c].tx
                     /\ last.ret = Len(last.args.readings)
                     /\ Cardinality(readings) = Cardinality(pre.readings) + last.ret
                ELSE readings = pre.readings

\* a read of every reading while a batch has inserted a row and not yet committed
C28_Witness ==
    /\ last.op = "get_readings"
    /\ Unwrap(last.args.query) = ReadingQuery(None, None, None, None, None)
    /\ last.rows # <<>>
    /\ \E c \in Conns : /\ pre.inflight[c].pc = "bulk_insert"
                         /\ pre.inflight[c].inserted # {}
                         /\ inflight[c] = pre.inflight[c]

\* C29: the fields of one health report describe one committed state of the store even
\* when other connections commit inserts and deletes while it is computed: no report
\* has readings_count > 0 with status "empty" or without its oldest or newest timestamp.
C29_HealthReportIsOneState ==
    (last.op = "get_database_health")
    => LET h == last.rows[1]
       IN  h.readings_count > 0
           => /\ h.status # "empty"
              /\ h.oldest_reading # None
              /\ h.newest_reading # None

\* C30: in every health report peak_insert_rate is present exactly when
\* average_insert_rate is, which is exactly when the store holds readings whose newest
\* timestamp is greater than the oldest; readings that all share one timestamp give a
\* report with status "healthy" and neither rate.
C30_RatesPresentTogether ==
    (last.op = "get_database_health")
    => LET h == last.rows[1]
           spread == readings # {} /\ Greatest(Stamps) > Least(Stamps)
       IN  /\ (h.peak_insert_rate # None) <=> (h.average_insert_rate # None)
           /\ (h.average_insert_rate # None) <=> spread
           /\ (readings # {} /\ ~spread)
              => /\ h.status = "healthy"
                 /\ h.average_insert_rate = None
                 /\ h.peak_insert_rate = None

\* a report on two readings that share their timestamp
C30_Witness ==
    /\ last.op = "get_database_health"
    /\ Cardinality(readings) = 2
    /\ Greatest(Stamps) = Least(Stamps)
    /\ last.rows[1].status = "healthy"
    /\ last.rows[1].peak_insert_rate = None

====
